---- MODULE Spec2Model ----
(***************************************************************************)
(* Model of src/routes/gemini.js: the three Express handlers               *)
(*   POST /analyze, POST /save, GET /getFoodLogs                           *)
(* together with the two collaborators they await (the generative model    *)
(* and the food_logs table).  Every handler is split at its `await`, so    *)
(* requests of different clients interleave exactly where the event loop   *)
(* lets them.  The step after the await is the collaborator settling the   *)
(* awaited promise together with the handler running to its end.           *)
(*                                                                         *)
(* JavaScript values are tagged records:                                   *)
(*   [t |-> "undefined"], [t |-> "null"], [t |-> "number", n |-> Int],     *)
(*   [t |-> "string", s |-> STRING], [t |-> "boolean", b |-> BOOLEAN],     *)
(*   [t |-> "array", a |-> Seq], [t |-> "object", o |-> [keys -> value]]   *)
(* Numbers are integers; NaN and fractions are outside the model.          *)
(***************************************************************************)
EXTENDS Integers, Sequences, FiniteSets, TLC

(***************************************************************************)
(* Bounds of the model.                                                    *)
(***************************************************************************)
\* most rows the food_logs table holds
MaxRows == 2
\* last calendar day the clock reaches (days are 0..MaxDay)
MaxDay == 1
\* Math.random() is drawn from {0/RandSteps, ..., (RandSteps-1)/RandSteps}
RandSteps == 1

\* the concurrent clients (one request in flight per client)
Clients == {"c1", "c2"}

(***************************************************************************)
(* JavaScript values                                                       *)
(***************************************************************************)
Undef == [t |-> "undefined"]
Null == [t |-> "null"]
Num(n) == [t |-> "number", n |-> n]
Str(s) == [t |-> "string", s |-> s]
Bool(b) == [t |-> "boolean", b |-> b]
Arr(a) == [t |-> "array", a |-> a]
Obj(o) == [t |-> "object", o |-> o]
EmptyObj == [t |-> "object", o |-> <<>>]

\* property read  v.k  on an object (undefined when the key is absent)
Get(v, k) == IF v.t = "object" /\ k \in DOMAIN v.o THEN v.o[k] ELSE Undef

Has(v, k) == v.t = "object" /\ k \in DOMAIN v.o

\* ToBoolean: what `!x`, `x && y`, `x || y` test
Truthy(v) ==
    CASE v.t = "undefined" -> FALSE
      [] v.t = "null"      -> FALSE
      [] v.t = "number"    -> v.n # 0
      [] v.t = "string"    -> v.s # ""
      [] v.t = "boolean"   -> v.b
      [] OTHER             -> TRUE

(***************************************************************************)
(* Strings: String.prototype.toLowerCase and String.prototype.includes     *)
(***************************************************************************)
UpperAlpha == "ABCDEFGHIJKLMNOPQRSTUVWXYZ"
LowerAlpha == "abcdefghijklmnopqrstuvwxyz"

CharAt(s, i) == SubSeq(s, i, i)

\* the lower-case letter of each upper-case letter
LowerOf == [i \in 1..26 |-> CharAt(LowerAlpha, i)]
UpperIndex ==
    [c \in {CharAt(UpperAlpha, i) : i \in 1..26} |->
        CHOOSE i \in 1..26 : CharAt(UpperAlpha, i) = c]

LowerChar(c) == IF c \in DOMAIN UpperIndex THEN LowerOf[UpperIndex[c]] ELSE c

RECURSIVE ToLowerFrom(_, _)
ToLowerFrom(s, i) ==
    IF i > Len(s) THEN "" ELSE LowerChar(CharAt(s, i)) \o ToLowerFrom(s, i + 1)

ToLowerCase(s) == ToLowerFrom(s, 1)

Includes(s, sub) ==
    \E i \in 1..(Len(s) - Len(sub) + 1) : SubSeq(s, i, i + Len(sub) - 1) = sub

(***************************************************************************)
(* Number -> String (the ToString that `+` applies next to a string)       *)
(***************************************************************************)
Digits == "0123456789"

RECURSIVE NatToString(_)
NatToString(n) ==
    IF n < 10 THEN CharAt(Digits, n + 1)
    ELSE NatToString(n \div 10) \o CharAt(Digits, (n % 10) + 1)

NumberToString(n) == IF n < 0 THEN "-" \o NatToString(0 - n) ELSE NatToString(n)

(***************************************************************************)
(* JSON.parse, over the characters of the text.  A result is               *)
(*   [ok |-> TRUE, val |-> value, next |-> index after the value]          *)
(* or ParseFail (JSON.parse throws SyntaxError).  Strings have no escape   *)
(* sequences and numbers are integers.                                     *)
(***************************************************************************)
ParseFail == [ok |-> FALSE, val |-> Undef, next |-> 0]
ParseOk(v, i) == [ok |-> TRUE, val |-> v, next |-> i]

DigitIndex ==
    [c \in {CharAt(Digits, d) : d \in 1..10} |-> CHOOSE d \in 1..10 : CharAt(Digits, d) = c]
IsDigit(c) == c \in DOMAIN DigitIndex
DigitValue(c) == DigitIndex[c] - 1

RECURSIVE SkipWs(_, _)
SkipWs(s, i) == IF i <= Len(s) /\ CharAt(s, i) = " " THEN SkipWs(s, i + 1) ELSE i

StartsWith(s, i, lit) == i + Len(lit) - 1 <= Len(s) /\ SubSeq(s, i, i + Len(lit) - 1) = lit

\* the index of the first quote at or after i, 0 when a backslash or the
\* end of the text comes first
RECURSIVE ClosingQuote(_, _)
ClosingQuote(s, i) ==
    IF i > Len(s) THEN 0
    ELSE LET c == CharAt(s, i)
         IN  IF c = "\"" THEN i
             ELSE IF c = "\\" THEN 0
             ELSE ClosingQuote(s, i + 1)

\* s[i] is the opening quote
ParseString(s, i) ==
    LET j == ClosingQuote(s, i + 1)
    IN  IF j = 0 THEN ParseFail ELSE ParseOk(Str(SubSeq(s, i + 1, j - 1)), j + 1)

RECURSIVE DigitsEnd(_, _)
DigitsEnd(s, i) == IF i <= Len(s) /\ IsDigit(CharAt(s, i)) THEN DigitsEnd(s, i + 1) ELSE i

RECURSIVE DigitsValue(_, _, _)
DigitsValue(s, i, j) ==
    IF j < i THEN 0 ELSE DigitsValue(s, i, j - 1) * 10 + DigitValue(CharAt(s, j))

ParseNumber(s, i) ==
    LET neg == CharAt(s, i) = "-"
        b   == IF neg THEN i + 1 ELSE i
        e   == DigitsEnd(s, b)
    IN  IF e = b \/ (e > b + 1 /\ CharAt(s, b) = "0") THEN ParseFail
        ELSE LET n == DigitsValue(s, b, e - 1)
             IN  ParseOk(Num(IF neg THEN 0 - n ELSE n), e)

RECURSIVE ParseValue(_, _), ParseElements(_, _, _), ParseMembers(_, _, _)
ParseValue(s, i0) ==
    LET i == SkipWs(s, i0)
        c == IF i <= Len(s) THEN CharAt(s, i) ELSE ""
    IN  CASE c = "{"  -> ParseMembers(s, i + 1, <<>>)
          [] c = "["  -> ParseElements(s, i + 1, <<>>)
          [] c = "\"" -> ParseString(s, i)
          [] c = "-" \/ (c # "" /\ IsDigit(c)) -> ParseNumber(s, i)
          [] StartsWith(s, i, "null")  -> ParseOk(Null, i + 4)
          [] StartsWith(s, i, "true")  -> ParseOk(Bool(TRUE), i + 4)
          [] StartsWith(s, i, "false") -> ParseOk(Bool(FALSE), i + 5)
          [] OTHER -> ParseFail

\* after "[" or after a ","; acc holds the elements read so far
ParseElements(s, i0, acc) ==
    LET i == SkipWs(s, i0)
    IN  IF i <= Len(s) /\ CharAt(s, i) = "]" /\ acc = <<>>
        THEN ParseOk(Arr(<<>>), i + 1)
        ELSE LET r == ParseValue(s, i)
             IN  IF ~r.ok THEN ParseFail
                 ELSE LET j == SkipWs(s, r.next)
                          d == IF j <= Len(s) THEN CharAt(s, j) ELSE ""
                      IN  CASE d = "," -> ParseElements(s, j + 1, Append(acc, r.val))
                            [] d = "]" -> ParseOk(Arr(Append(acc, r.val)), j + 1)
                            [] OTHER   -> ParseFail

\* after "{" or after a ","; acc maps the keys read so far (a later
\* duplicate of a key replaces the earlier one)
ParseMembers(s, i0, acc) ==
    LET i == SkipWs(s, i0)
    IN  IF i <= Len(s) /\ CharAt(s, i) = "}" /\ DOMAIN acc = {}
        THEN ParseOk(Obj(acc), i + 1)
        ELSE IF ~(i <= Len(s) /\ CharAt(s, i) = "\"") THEN ParseFail
        ELSE LET k == ParseString(s, i)
                 c == SkipWs(s, k.next)
             IN  IF ~k.ok \/ ~(c <= Len(s) /\ CharAt(s, c) = ":") THEN ParseFail
                 ELSE LET r == ParseValue(s, c + 1)
                      IN  IF ~r.ok THEN ParseFail
                          ELSE LET j   == SkipWs(s, r.next)
                                   d   == IF j <= Len(s) THEN CharAt(s, j) ELSE ""
                                   new == (k.val.s :> r.val) @@ acc
                               IN  CASE d = "," -> ParseMembers(s, j + 1, new)
                                     [] d = "}" -> ParseOk(Obj(new), j + 1)
                                     [] OTHER   -> ParseFail

\* JSON.parse(text): text is a JavaScript value; anything but a string that
\* holds exactly one JSON value (undefined included) throws
JSONParse(text) ==
    IF text.t # "string" THEN ParseFail
    ELSE LET r == ParseValue(text.s, 1)
         IN  IF r.ok /\ SkipWs(text.s, r.next) = Len(text.s) + 1 THEN r ELSE ParseFail


(***************************************************************************)
(* Promises the handlers await, and the responses they send                *)
(***************************************************************************)
Pending == [k |-> "pending", v |-> Undef]
Fulfilled(v) == [k |-> "fulfilled", v |-> v]
Rejected(e) == [k |-> "rejected", v |-> e]

\* res.status(status).json(body)
Response(status, body) == [status |-> status, body |-> body]

\* an Error / PostgrestError value
ErrorValue(msg) == Obj([message |-> Str(msg)])

(***************************************************************************)
(* POST /analyze                                                           *)
(***************************************************************************)
deadCelebs ==
    << "Albert Einstein", "Cleopatra", "Julius Caesar", "Shakespeare",
       "Frida Kahlo", "Bruce Lee", "Leonardo da Vinci", "Napoleon Bonaparte",
       "Amelia Earhart", "Marie Curie" >>

\* Math.random() returned k / RandSteps
getRandomCeleb(k) == deadCelebs[((k * Len(deadCelebs)) \div RandSteps) + 1]

Required ==
    {"coachAdvice", "fallback", "food", "benefits", "calories", "carbs",
     "sugar", "drawbacks", "nutrients"}

\* the uploads multer hands over: req.file is undefined or a file
Files == {Undef, Obj([mimetype |-> Str("image/png")])}

\* the texts the model may answer with (result.text)
FoodText ==
    "{\"fallback\": \"\", \"coachAdvice\": \"Eat it\", \"food\": \"Pie\", "
    \o "\"benefits\": [\"Energy\", \"Joy\"], \"calories\": 250, \"carbs\": 30, "
    \o "\"sugar\": 10, \"drawbacks\": [\"Fat\"], \"nutrients\": [\"Iron: blood - 60\"]}"
StrayFallbackText ==
    "{\"fallback\": \"Sorry: NO Food Detected here\", \"coachAdvice\": \"Hm\", "
    \o "\"food\": \"Pie\", \"benefits\": [], \"calories\": 250, \"carbs\": 30, "
    \o "\"sugar\": 10, \"drawbacks\": [], \"nutrients\": []}"
MissingFieldsText == "{\"food\": \"Pie\", \"calories\": 250}"
TruncatedText == "{\"food\": \"Pie\", \"calories\": "
NullText == "null"
NumberText == "42"
BadFallbackText == "{\"fallback\": 1, \"food\": \"Pie\"}"

ReplyTexts ==
    {FoodText, StrayFallbackText, MissingFieldsText, TruncatedText, NullText,
     NumberText, BadFallbackText}

\* how ai.models.generateContent settles: a result with a text, a result
\* without one, or a rejection
ModelOutcomes ==
    {Fulfilled(Obj([text |-> Str(t)])) : t \in ReplyTexts}
    \cup {Fulfilled(EmptyObj), Rejected(ErrorValue("fetch failed"))}

NoImage == Response(400, Obj([error |-> Str("No image uploaded")]))
InvalidFormat == Response(500, Obj([error |-> Str("Invalid response format from AI")]))
AnalyzeFailed == Response(500, Obj([error |-> Str("Failed to analyze image")]))

\* variant of IsNoFood that forgets toLowerCase()
IsNoFoodLiteral(s) == Includes(s, "no food detected")
\* line 129:  analysis.fallback.toLowerCase().includes("no food detected")
IsNoFood(s) == Includes(ToLowerCase(s), "no food detected")

\* lines 129-138, after JSON.parse succeeded; a TypeError raised on the way
\* lands in the outer catch
ResolveAnalysis(analysis, celeb) ==
    IF analysis.t \in {"null", "undefined"} THEN AnalyzeFailed
    ELSE LET fallback == Get(analysis, "fallback")
             full     == Response(200, Obj([analysis |-> analysis, coach |-> Str(celeb)]))
         IN  IF ~Truthy(fallback) THEN full
             ELSE IF fallback.t # "string" THEN AnalyzeFailed
             ELSE IF IsNoFood(fallback.s)
                  THEN Response(200, Obj([analysis |-> Obj([fallback |-> fallback])]))
                  ELSE full

\* lines 119-143: what the handler answers once generateContent has settled
AnalyzeAnswer(settled, celeb) ==
    IF settled.k = "rejected" THEN AnalyzeFailed
    ELSE LET parsed == JSONParse(Get(settled.v, "text"))
         IN  IF ~parsed.ok THEN InvalidFormat
             ELSE ResolveAnalysis(parsed.val, celeb)

(***************************************************************************)
(* POST /save                                                              *)
(***************************************************************************)
Body(cal, sugar, carbs, userId, foodName) ==
    [cal |-> cal, sugar |-> sugar, carbs |-> carbs, userId |-> userId, foodName |-> foodName]

\* req.body of the requests the clients send (a missing key reads undefined)
Bodies ==
    { Body(Num(250), Num(10), Num(30), Str("u1"), Str("Apple")),
      Body(Num(100), Undef, Num(10), Str("u1"), Str("Rice")),
      Body(Num(0), Num(5), Num(10), Str("u1"), Str("Water")),
      Body(Str("10"), Num(5), Num(20), Str("u1"), Str("Soup")) }

SaveRejected == Response(400, Obj([error |-> Str("sugar, carbs, cal is required")]))
SaveOk ==
    Response(200, Obj([success |-> Bool(TRUE), message |-> Str("saved successfully!"),
                       data |-> Null]))
SaveFailed(error) ==
    LET msg == Get(error, "message")
    IN  Response(500, Obj([error |-> IF Truthy(msg) THEN msg ELSE Str("Internal server error"),
                           details |-> error]))

\* variant of MissingNutrients that forgets sugar
MissingNutrientsNoSugar(body) == ~Truthy(body.cal) \/ ~Truthy(body.carbs)
\* line 152:  !cal || !sugar || !carbs
MissingNutrients(body) == ~Truthy(body.cal) \/ ~Truthy(body.sugar) \/ ~Truthy(body.carbs)

\* variant of InsertEntry that swaps carbs and sugar
InsertEntrySwapped(body) ==
    [calories |-> body.cal, carbs |-> body.sugar, sugar |-> body.carbs,
     user_id |-> body.userId, food_name |-> body.foodName]
\* lines 157-163: the entry handed to insert
InsertEntry(body) ==
    [calories |-> body.cal, carbs |-> body.carbs, sugar |-> body.sugar,
     user_id |-> body.userId, food_name |-> body.foodName]

\* the row the table keeps for an entry inserted on day d
StoredRow(entry, d) ==
    Obj([calories |-> entry.calories, carbs |-> entry.carbs, sugar |-> entry.sugar,
         user_id |-> entry.user_id, food_name |-> entry.food_name,
         created_at |-> Num(d)])

\* how the insert settles: {data, error} without or with an error, or a rejection
InsertSucceeded == Fulfilled(Obj([data |-> Null, error |-> Null]))
StoreErrored == Fulfilled(Obj([data |-> Null, error |-> ErrorValue("permission denied")]))
StoreThrew == Rejected(ErrorValue("fetch failed"))

\* lines 165-177: what the handler answers once the insert has settled
SaveAnswer(settled) ==
    IF settled.k = "rejected" THEN SaveFailed(settled.v)
    ELSE LET error == Get(settled.v, "error")
         IN  IF Truthy(error) THEN SaveFailed(error) ELSE SaveOk


(***************************************************************************)
(* GET /getFoodLogs                                                        *)
(***************************************************************************)
\* req.query.userId of the requests the clients send
UserIds == {Undef, Str("u1")}

NoUserId == Response(400, Obj([error |-> Str("no userId received!")]))

\* lines 187-189: the local calendar day of `today`, as [start, end)
DayStart(d) == d
DayEnd(d) == d + 1

Reverse(s) == [i \in 1..Len(s) |-> s[Len(s) + 1 - i]]

\* lines 191-197: the rows of one user created in [start, end), newest first
QueryDay(table, userId, start, end) ==
    LET Match(row) == /\ Get(row, "user_id") = userId
                      /\ Get(row, "created_at").n >= start
                      /\ Get(row, "created_at").n < end
    IN  Reverse(SelectSeq(table, Match))

\* the operands of `+`:  ToString and ToNumber
ToStr(v) ==
    CASE v.t = "string"  -> v.s
      [] v.t = "number"  -> NumberToString(v.n)
      [] v.t = "boolean" -> IF v.b THEN "true" ELSE "false"
      [] v.t = "null"    -> "null"
      [] OTHER           -> "undefined"

ToNum(v) ==
    CASE v.t = "number"  -> v.n
      [] v.t = "boolean" -> IF v.b THEN 1 ELSE 0
      [] OTHER           -> 0

\* a + b on numbers, booleans, null and strings
JsAdd(a, b) ==
    IF a.t = "string" \/ b.t = "string" THEN Str(ToStr(a) \o ToStr(b))
    ELSE Num(ToNum(a) + ToNum(b))

\* x || 0
OrZero(v) == IF Truthy(v) THEN v ELSE Num(0)

Totals(cal, carbs, sugar) == [totalCalories |-> cal, totalCarbs |-> carbs, totalSugar |-> sugar]

\* lines 204-211: data.reduce(..., {totalCalories: 0, totalCarbs: 0, totalSugar: 0})
RECURSIVE ReduceFrom(_, _, _)
ReduceFrom(data, i, acc) ==
    IF i > Len(data) THEN acc
    ELSE ReduceFrom(data, i + 1,
            Totals(JsAdd(acc.totalCalories, OrZero(Get(data[i], "calories"))),
                   JsAdd(acc.totalCarbs, OrZero(Get(data[i], "carbs"))),
                   JsAdd(acc.totalSugar, OrZero(Get(data[i], "sugar")))))

Reduce(data) == ReduceFrom(data, 1, Totals(Num(0), Num(0), Num(0)))

QuerySucceeded(data) == Fulfilled(Obj([data |-> Arr(data), error |-> Null]))

\* lines 199-213: the responses the handler sends once the query has settled.
\* A rejection is not caught and a returned error only logs: neither answers.
GetAnswer(settled) ==
    IF settled.k = "rejected" THEN <<>>
    ELSE IF Truthy(Get(settled.v, "error")) THEN <<>>
    ELSE LET data == Get(settled.v, "data")
         IN  << Response(200, Obj([data |-> data, totals |-> Obj(Reduce(data.a))])) >>

(***************************************************************************)
(* State                                                                   *)
(***************************************************************************)
VARIABLES
    rows,        \* the food_logs table, in insertion order
    today,       \* the server's local calendar day
    kind,        \* per client: the route of its latest request
    pc,          \* per client: where the handler of that request stands
    req,         \* per client: req.file, req.body or req.query.userId
    local,       \* per client: the handler's locals that outlive the await
    awaited,     \* per client: the promise the handler awaits
    sent,        \* per client: the responses sent to the request so far
    modelCalls   \* per client: generateContent calls made for the request

vars == <<rows, today, kind, pc, req, local, awaited, sent, modelCalls>>

\* what the table may hold when the server starts: one earlier row, of today
\* and without a sugar value, or of yesterday
SeedRows ==
    { << StoredRow([calories |-> Num(200), carbs |-> Num(20), sugar |-> Null,
                    user_id |-> Str("u1"), food_name |-> Str("Tea")], 0) >>,
      << StoredRow([calories |-> Num(90), carbs |-> Num(9), sugar |-> Num(3),
                    user_id |-> Str("u1"), food_name |-> Str("Fig")], 0 - 1) >> }

Init ==
    /\ rows \in SeedRows
    /\ today = 0
    /\ kind = [c \in Clients |-> "none"]
    /\ pc = [c \in Clients |-> "idle"]
    /\ req = [c \in Clients |-> Undef]
    /\ local = [c \in Clients |-> EmptyObj]
    /\ awaited = [c \in Clients |-> Pending]
    /\ sent = [c \in Clients |-> <<>>]
    /\ modelCalls = [c \in Clients |-> 0]

\* a client sends its next request once the handler of its last one returned
Free(c) == pc[c] \in {"idle", "done"}

\* the handler of client c starts on a new request
Begin(c, route, input, locals, nextPc, responses, calls) ==
    /\ kind' = [kind EXCEPT ![c] = route]
    /\ req' = [req EXCEPT ![c] = input]
    /\ local' = [local EXCEPT ![c] = IF nextPc = "done" THEN EmptyObj ELSE locals]
    /\ pc' = [pc EXCEPT ![c] = nextPc]
    /\ awaited' = [awaited EXCEPT ![c] = Pending]
    /\ sent' = [sent EXCEPT ![c] = responses]
    /\ modelCalls' = [modelCalls EXCEPT ![c] = calls]

\* the promise the handler of client c awaits settles with `outcome` and the
\* handler runs from its await to its end, sending `responses`; its locals
\* die with it
Finish(c, outcome, responses) ==
    /\ awaited' = [awaited EXCEPT ![c] = outcome]
    /\ sent' = [sent EXCEPT ![c] = sent[c] \o responses]
    /\ pc' = [pc EXCEPT ![c] = "done"]
    /\ local' = [local EXCEPT ![c] = EmptyObj]
    /\ UNCHANGED <<today, kind, req, modelCalls>>

\* lines 19-117: up to `await ai.models.generateContent(...)`
AnalyzeStart(c) ==
    /\ Free(c)
    /\ \E file \in Files, k \in 0..(RandSteps - 1) :
          LET locals == Obj([celebName |-> Str(getRandomCeleb(k))])
          IN  IF ~Truthy(file)
              THEN Begin(c, "analyze", file, locals, "done", <<NoImage>>, 0)
              ELSE Begin(c, "analyze", file, locals, "awaitModel", <<>>, 1)
    /\ UNCHANGED <<rows, today>>

\* variant of AnalyzeResume that calls the model again after a rejection
AnalyzeResumeRetrying(c) ==
    /\ pc[c] = "awaitModel"
    /\ \E outcome \in ModelOutcomes :
          IF outcome.k = "rejected" /\ modelCalls[c] < 2
          THEN /\ modelCalls' = [modelCalls EXCEPT ![c] = modelCalls[c] + 1]
               /\ UNCHANGED <<today, kind, pc, req, local, awaited, sent>>
          ELSE Finish(c, outcome, << AnalyzeAnswer(outcome, Get(local[c], "celebName").s) >>)
    /\ UNCHANGED rows

\* lines 119-143: generateContent settles and the handler answers
AnalyzeResume(c) ==
    /\ pc[c] = "awaitModel"
    /\ \E outcome \in ModelOutcomes :
          Finish(c, outcome, << AnalyzeAnswer(outcome, Get(local[c], "celebName").s) >>)
    /\ UNCHANGED rows

\* lines 147-163: up to `await supabase.from('food_logs').insert(...)`
SaveStart(c) ==
    /\ Free(c)
    /\ \E body \in Bodies :
          IF MissingNutrients(body)
          THEN Begin(c, "save", Obj(body), EmptyObj, "done", <<SaveRejected>>, 0)
          ELSE Begin(c, "save", Obj(body), EmptyObj, "awaitInsert", <<>>, 0)
    /\ UNCHANGED <<rows, today>>

\* lines 165-177: the table executes the insert, or fails to, and the
\* handler answers
SaveResume(c) ==
    /\ pc[c] = "awaitInsert"
    /\ \/ /\ Len(rows) < MaxRows
          /\ rows' = Append(rows, StoredRow(InsertEntry(req[c].o), today))
          /\ Finish(c, InsertSucceeded, << SaveAnswer(InsertSucceeded) >>)
       \/ /\ \E outcome \in {StoreErrored, StoreThrew} :
                Finish(c, outcome, << SaveAnswer(outcome) >>)
          /\ UNCHANGED rows

\* lines 181-197: up to `await supabase.from('food_logs').select(...)...`
GetStart(c) ==
    /\ Free(c)
    /\ \E userId \in UserIds :
          IF ~Truthy(userId)
          THEN Begin(c, "getFoodLogs", userId, EmptyObj, "done", <<NoUserId>>, 0)
          ELSE Begin(c, "getFoodLogs", userId,
                     Obj([start |-> Num(DayStart(today)), end |-> Num(DayEnd(today))]),
                     "awaitQuery", <<>>, 0)
    /\ UNCHANGED <<rows, today>>

\* lines 199-213: the table executes the query, or fails to, and the
\* handler answers
GetResume(c) ==
    /\ pc[c] = "awaitQuery"
    /\ \E outcome \in {QuerySucceeded(QueryDay(rows, req[c], Get(local[c], "start").n,
                                               Get(local[c], "end").n)),
                       StoreErrored, StoreThrew} :
          Finish(c, outcome, GetAnswer(outcome))
    /\ UNCHANGED rows

\* midnight passes
NextDay ==
    /\ today < MaxDay
    /\ today' = today + 1
    /\ UNCHANGED <<rows, kind, pc, req, local, awaited, sent, modelCalls>>

Next ==
    \/ \E c \in Clients : AnalyzeStart(c)
    \/ \E c \in Clients : AnalyzeResume(c)
    \/ \E c \in Clients : SaveStart(c)
    \/ \E c \in Clients : SaveResume(c)
    \/ \E c \in Clients : GetStart(c)
    \/ \E c \in Clients : GetResume(c)
    \/ NextDay

Spec == Init /\ [][Next]_vars


(***************************************************************************)
(* Vocabulary of the properties                                            *)
(***************************************************************************)
UpperChar(c) ==
    IF \E i \in 1..26 : CharAt(LowerAlpha, i) = c
    THEN CharAt(UpperAlpha, CHOOSE i \in 1..26 : CharAt(LowerAlpha, i) = c)
    ELSE c

RECURSIVE ToUpperFrom(_, _)
ToUpperFrom(s, i) ==
    IF i > Len(s) THEN "" ELSE UpperChar(CharAt(s, i)) \o ToUpperFrom(s, i + 1)

\* the string holds "no food detected" in some casing
HasSentinel(s) == Includes(ToUpperFrom(s, 1), "NO FOOD DETECTED")

\* the fallback field of a value is a string that holds the sentinel
CarriesSentinel(v) ==
    /\ Get(v, "fallback").t = "string"
    /\ HasSentinel(Get(v, "fallback").s)

\* client c's /analyze request has been answered after the model replied
Analyzed(c) == kind[c] = "analyze" /\ pc[c] = "done" /\ awaited[c].k = "fulfilled"

\* what JSON.parse makes of the reply client c's request got
ReplyOf(c) == JSONParse(Get(awaited[c].v, "text"))

NutritionFields ==
    {"coachAdvice", "food", "benefits", "calories", "carbs", "sugar", "drawbacks",
     "nutrients"}

\* some of cal, sugar, carbs of a /save body is missing or falsy
AnyFalsy(body) == \E f \in {"cal", "sugar", "carbs"} : ~Truthy(Get(body, f))

\* this step is a step of client c
StepOf(c) ==
    <<kind[c], pc[c], req[c], local[c], awaited[c], sent[c], modelCalls[c]>>
        # <<kind'[c], pc'[c], req'[c], local'[c], awaited'[c], sent'[c], modelCalls'[c]>>

\* all orders of a sequence
PermsOf(s) ==
    LET n == Len(s)
        bij == {f \in [1..n -> 1..n] : \A i, j \in 1..n : f[i] = f[j] => i = j}
    IN  {[i \in 1..n |-> s[f[i]]] : f \in bij}

\* client c's /getFoodLogs request has been answered with the day's rows
Listed(c) ==
    /\ kind[c] = "getFoodLogs" /\ pc[c] = "done"
    /\ awaited[c].k = "fulfilled" /\ ~Truthy(Get(awaited[c].v, "error"))

DataOf(c) == Get(awaited[c].v, "data").a
TotalsOf(c) == Get(sent[c][1].body, "totals").o

\* the sum of a field over rows, a value that is no number counting as 0
RECURSIVE SumField(_, _, _)
SumField(data, f, i) ==
    IF i > Len(data) THEN 0
    ELSE (IF Get(data[i], f).t = "number" THEN Get(data[i], f).n ELSE 0)
         + SumField(data, f, i + 1)

(***************************************************************************)
(* C1. When the fallback field of the model's reply holds "no food         *)
(* detected" in any casing, /analyze answers 200 with an analysis that     *)
(* holds the fallback message and nothing else: no nutrition field, no     *)
(* coachAdvice and no coach, whatever else the reply carried.              *)
(***************************************************************************)
C1_FallbackOnly ==
    \A c \in Clients :
        Analyzed(c) =>
            LET reply == ReplyOf(c)
            IN  (reply.ok /\ CarriesSentinel(reply.val))
                => /\ Len(sent[c]) = 1
                   /\ sent[c][1].status = 200
                   /\ DOMAIN sent[c][1].body.o = {"analysis"}
                   /\ DOMAIN Get(sent[c][1].body, "analysis").o = {"fallback"}
                   /\ Get(Get(sent[c][1].body, "analysis"), "fallback")
                        = Get(reply.val, "fallback")

\* a reply with a mixed-case sentinel and stray nutrition fields was answered
C1_Witness ==
    \E c \in Clients :
        /\ Analyzed(c)
        /\ awaited[c].v = Obj([text |-> Str(StrayFallbackText)])
        /\ Has(ReplyOf(c).val, "calories") /\ Has(ReplyOf(c).val, "food")
        /\ sent[c] = << Response(200, Obj([analysis |->
                          Obj([fallback |-> Str("Sorry: NO Food Detected here")])])) >>

(***************************************************************************)
(* C2. When the model's reply lacks a required field and its fallback does *)
(* not hold the sentinel, /analyze answers 500, never 200.                 *)
(***************************************************************************)
C2_MissingFieldRejected ==
    \A c \in Clients :
        (/\ Analyzed(c) /\ ReplyOf(c).ok
         /\ ReplyOf(c).val.t = "object"
         /\ \E f \in NutritionFields : ~Has(ReplyOf(c).val, f)
         /\ ~CarriesSentinel(ReplyOf(c).val))
        => (Len(sent[c]) = 1 /\ sent[c][1].status = 500)

(***************************************************************************)
(* C3. Every request whose handler has run to its end has received         *)
(* exactly one response.                                                   *)
(***************************************************************************)
C3_ExactlyOneResponse ==
    \A c \in Clients : pc[c] = "done" => Len(sent[c]) = 1

(***************************************************************************)
(* C4. A /save request with cal, sugar or carbs missing or falsy is        *)
(* answered 400 {error: "sugar, carbs, cal is required"}; its handler      *)
(* never awaits an insert, and its steps leave the table unchanged.        *)
(***************************************************************************)
C4_State ==
    \A c \in Clients :
        (kind[c] = "save" /\ AnyFalsy(req[c]))
        => /\ pc[c] = "done"
           /\ sent[c] = << Response(400, Obj([error |-> Str("sugar, carbs, cal is required")])) >>

C4_Step ==
    \A c \in Clients :
        (StepOf(c) /\ kind'[c] = "save" /\ AnyFalsy(req'[c])) => rows' = rows

\* C4: a /save request with a falsy cal, sugar or carbs is answered 400, starts
\* no insert and leaves the table as it is
C4_RejectsFalsy == C4_State /\ [][C4_State' /\ C4_Step]_vars

\* a body without sugar and a body with cal 0 were both rejected
C4_Witness ==
    \E c, d \in Clients :
        /\ kind[c] = "save" /\ Get(req[c], "sugar") = Undef /\ Truthy(Get(req[c], "cal"))
        /\ kind[d] = "save" /\ Get(req[d], "cal") = Num(0)
        /\ sent[c] = <<SaveRejected>> /\ sent[d] = <<SaveRejected>>

(***************************************************************************)
(* C5. A /save handler awaits an insert only when calories, carbs and      *)
(* sugar are truthy numbers and a user id is present.                      *)
(***************************************************************************)
C5_InsertPrecondition ==
    \A c \in Clients :
        pc[c] = "awaitInsert"
        => /\ \A f \in {"cal", "sugar", "carbs"} :
                 Get(req[c], f).t = "number" /\ Truthy(Get(req[c], f))
           /\ Truthy(Get(req[c], "userId"))

(***************************************************************************)
(* C6. The totals of /getFoodLogs do not depend on the order of the rows:  *)
(* reducing any permutation of the returned rows gives the totals sent.    *)
(***************************************************************************)
C6_OrderIndependent ==
    \A c \in Clients :
        Listed(c) => \A p \in PermsOf(DataOf(c)) : Reduce(p) = TotalsOf(c)

(***************************************************************************)
(* C7. The totals of /getFoodLogs are the field-wise sums of calories,     *)
(* carbs and sugar over the returned rows, a missing or null field         *)
(* counting as 0; for no rows they are 0, 0, 0 and the response is 200.    *)
(***************************************************************************)
C7_TotalsAreSums ==
    \A c \in Clients :
        Listed(c)
        => /\ Len(sent[c]) = 1 /\ sent[c][1].status = 200
           /\ TotalsOf(c) = Totals(Num(SumField(DataOf(c), "calories", 1)),
                                   Num(SumField(DataOf(c), "carbs", 1)),
                                   Num(SumField(DataOf(c), "sugar", 1)))

(***************************************************************************)
(* C8. When the model's reply is not the text of a JSON object, /analyze   *)
(* answers 500 {error: "Invalid response format from AI"}.                 *)
(***************************************************************************)
C8_UnparsableRejected ==
    \A c \in Clients :
        (Analyzed(c) /\ (~ReplyOf(c).ok \/ ReplyOf(c).val.t # "object"))
        => sent[c] = << Response(500, Obj([error |-> Str("Invalid response format from AI")])) >>

(***************************************************************************)
(* C9. The table is append-only: a step changes it only by appending one   *)
(* row, for a /save request that passed validation and awaits its insert,  *)
(* whose calories, carbs, sugar, user_id and food_name are the request's   *)
(* cal, carbs, sugar, userId and foodName; the steps of /analyze and       *)
(* /getFoodLogs requests leave it unchanged.                               *)
(***************************************************************************)
C9_Step ==
    /\ rows' # rows =>
          \E c \in Clients :
              /\ StepOf(c)
              /\ kind[c] = "save" /\ pc[c] = "awaitInsert" /\ ~AnyFalsy(req[c])
              /\ Len(rows') = Len(rows) + 1
              /\ SubSeq(rows', 1, Len(rows)) = rows
              /\ LET row == rows'[Len(rows')]
                 IN  /\ Get(row, "calories") = Get(req[c], "cal")
                     /\ Get(row, "carbs") = Get(req[c], "carbs")
                     /\ Get(row, "sugar") = Get(req[c], "sugar")
                     /\ Get(row, "user_id") = Get(req[c], "userId")
                     /\ Get(row, "food_name") = Get(req[c], "foodName")
    /\ \A c \in Clients :
          (StepOf(c) /\ kind[c] \in {"analyze", "getFoodLogs"} /\ ~Free(c)) => rows' = rows

\* C9: every step is a step of an append-only table
C9_AppendOnly == [][C9_Step]_vars

\* an accepted /save has added its row behind the row the table started with
C9_Witness ==
    \E c \in Clients :
        /\ kind[c] = "save" /\ pc[c] = "done" /\ sent[c] = <<SaveOk>>
        /\ Len(rows) = 2
        /\ rows[1] \in {s[1] : s \in SeedRows}
        /\ Get(rows[2], "calories") = Num(250) /\ Get(rows[2], "carbs") = Num(30)
        /\ Get(rows[2], "sugar") = Num(10) /\ Get(rows[2], "food_name") = Str("Apple")

(***************************************************************************)
(* C10. /analyze calls the model at most once per request: a request       *)
(* without an image is answered 400 with no call, and the step that        *)
(* follows the call ends the request without another call, with a 500      *)
(* when the call failed or the reply did not parse.                        *)
(***************************************************************************)
C10_State ==
    \A c \in Clients :
        /\ modelCalls[c] <= 1
        /\ (kind[c] = "analyze" /\ ~Truthy(req[c]))
           => (modelCalls[c] = 0 /\ pc[c] = "done" /\ Len(sent[c]) = 1 /\ sent[c][1].status = 400)

C10_Step ==
    \A c \in Clients :
        (StepOf(c) /\ pc[c] = "awaitModel")
        => /\ pc'[c] = "done"
           /\ modelCalls'[c] = modelCalls[c]
           /\ (awaited'[c].k = "rejected" \/ ~JSONParse(Get(awaited'[c].v, "text")).ok)
              => (Len(sent'[c]) = 1 /\ sent'[c][1].status = 500)

\* C10: at most one model call per /analyze request, none without an image,
\* and none after a failure
C10_NoRetry == C10_State /\ [][C10_State' /\ C10_Step]_vars

\* a request whose model call failed was answered 500 after its single call
C10_Witness ==
    \E c \in Clients :
        /\ kind[c] = "analyze" /\ pc[c] = "done" /\ awaited[c].k = "rejected"
        /\ modelCalls[c] = 1
        /\ sent[c] = <<AnalyzeFailed>>


====
